---- MODULE Spec2Model ----
(***************************************************************************)
(* Model of mhv's command line front end (src/cli.rs): the unit parser     *)
(* parse_unit and the read-then-render pipeline of execute.                *)
(*                                                                         *)
(* Text is a sequence of one-character strings, <<"3","k","b">> for "3kb". *)
(* usize is modelled UsizeBits wide; a multiplication that overflows it    *)
(* panics in a build with overflow checks and wraps in one without.        *)
(***************************************************************************)
EXTENDS Integers, Sequences, FiniteSets, TLC

VARIABLES
    build,      \* "debug" (overflow checks on) or "release" (wrapping)
    input,      \* text handed to a lone parse_unit call
    result,     \* what that call returned
    called,     \* whether that call has been made
    cli,        \* the parsed command line (struct Cli)
    file,       \* content of the target file, or NoFile
    sinkLimit,  \* lines stdout accepts before a write fails, or Unlimited
    pc,         \* position inside execute
    length,     \* result of parse_unit on the length text
    skip,       \* result of parse_unit on the skip text
    request,    \* arguments read_data was called with
    data,       \* the window read_data returned
    shown,      \* arguments display_data was called with
    out,        \* lines written to stdout
    error,      \* how execute failed, or "none"
    readCalls,  \* number of read_data calls
    showCalls   \* number of display_data calls

parseVars == <<input, result, called>>
execVars == <<cli, file, sinkLimit, pc, length, skip, request, data, shown,
              out, error, readCalls, showCalls>>
vars == <<build, input, result, called, cli, file, sinkLimit, pc, length,
          skip, request, data, shown, out, error, readCalls, showCalls>>

----------------------------------------------------------------------------
(* Bounds *)

UsizeBits == 21
MaxLen == 4
MaxChunks == 3

----------------------------------------------------------------------------
(* usize arithmetic *)

RECURSIVE Pow2(_)
Pow2(n) == IF n = 0 THEN 1 ELSE 2 * Pow2(n - 1)

UsizeMax == Pow2(UsizeBits) - 1

\* (a * b) % m by doubling, so that no intermediate exceeds 3 * m
RECURSIVE MulMod(_, _, _)
MulMod(a, b, m) ==
    IF b = 0 THEN 0
    ELSE LET h == MulMod(a, b \div 2, m)
         IN  (2 * h + (IF b % 2 = 1 THEN a ELSE 0)) % m

Builds == {"debug", "release"}

Ok(v) == [kind |-> "Ok", value |-> v, err |-> "none"]
Err(e) == [kind |-> "Err", value |-> 0, err |-> e]
Panic == [kind |-> "Panic", value |-> 0, err |-> "overflow"]

\* value *= factor on a usize
MulAssign(b, value, factor) ==
    IF value <= UsizeMax \div factor THEN Ok(value * factor)
    ELSE IF b = "debug" THEN Panic
    ELSE Ok(MulMod(value, factor, UsizeMax + 1))

----------------------------------------------------------------------------
(* str::parse::<usize> *)

Digits == <<"0", "1", "2", "3", "4", "5", "6", "7", "8", "9">>

IsDigit(c) == \E i \in 1..10 : Digits[i] = c
to_digit(c) == (CHOOSE i \in 1..10 : Digits[i] = c) - 1

\* the digit loop: checked multiply by ten, digit check, checked add
RECURSIVE ParseDigits(_, _)
ParseDigits(acc, s) ==
    IF s = <<>> THEN Ok(acc)
    ELSE IF ~IsDigit(Head(s)) THEN Err("InvalidDigit")
    ELSE IF acc > UsizeMax \div 10 THEN Err("PosOverflow")
    ELSE IF acc * 10 > UsizeMax - to_digit(Head(s)) THEN Err("PosOverflow")
    ELSE ParseDigits(acc * 10 + to_digit(Head(s)), Tail(s))

IsSpace(c) == c = " "

RECURSIVE TrimStart(_)
TrimStart(s) ==
    IF s # <<>> /\ IsSpace(Head(s)) THEN TrimStart(Tail(s)) ELSE s

ParseUsize_trimmed(s) ==
    LET t == TrimStart(s)
    IN  IF t = <<>> THEN Err("Empty")
        ELSE IF Len(t) = 1 /\ t[1] \in {"+", "-"} THEN Err("InvalidDigit")
        ELSE IF t[1] = "+" THEN ParseDigits(0, Tail(t))
        ELSE ParseDigits(0, t)
ParseUsize(s) ==
    IF s = <<>> THEN Err("Empty")
    ELSE IF Len(s) = 1 /\ s[1] \in {"+", "-"} THEN Err("InvalidDigit")
    ELSE IF s[1] = "+" THEN ParseDigits(0, Tail(s))
    ELSE ParseDigits(0, s)

----------------------------------------------------------------------------
(* parse_unit *)

None == [some |-> FALSE, rest |-> <<>>]
Some(s) == [some |-> TRUE, rest |-> s]

strip_suffix_lastChar(s, suffix) ==
    IF Len(s) >= Len(suffix) /\ s[Len(s)] = suffix[Len(suffix)]
    THEN Some(SubSeq(s, 1, Len(s) - Len(suffix)))
    ELSE None
strip_suffix(s, suffix) ==
    IF /\ Len(s) >= Len(suffix)
       /\ SubSeq(s, Len(s) - Len(suffix) + 1, Len(s)) = suffix
    THEN Some(SubSeq(s, 1, Len(s) - Len(suffix)))
    ELSE None

\* the body of one branch: let mut value = suffix.parse()?; value *= f; Ok(value)
Branch_noMultiply(b, text, factor) ==
    ParseUsize(text)
Branch(b, text, factor) ==
    LET value == ParseUsize(text)
    IN  IF value.kind # "Ok" THEN value
        ELSE MulAssign(b, value.value, factor)

parse_unit(b, text) ==
    IF strip_suffix(text, <<"k", "b">>).some
    THEN Branch(b, strip_suffix(text, <<"k", "b">>).rest, 1000)
    ELSE IF strip_suffix(text, <<"m", "b">>).some
    THEN Branch(b, strip_suffix(text, <<"m", "b">>).rest, 1000 * 1000)
    ELSE IF strip_suffix(text, <<"K">>).some
    THEN Branch(b, strip_suffix(text, <<"K">>).rest, 1024)
    ELSE IF strip_suffix(text, <<"M">>).some
    THEN Branch(b, strip_suffix(text, <<"M">>).rest, 1024 * 1024)
    ELSE ParseUsize(text)

----------------------------------------------------------------------------
(* A lone call of parse_unit on an arbitrary short text *)

Alphabet == {"0", "1", "2", "3", "k", "m", "b", "K", "M", "B", " ", "-", "+"}

Texts(n) == UNION {[1..k -> Alphabet] : k \in 0..n}

NoResult == [kind |-> "NotCalled", value |-> 0, err |-> "none"]

Idle ==
    /\ cli = [skip |-> <<"0">>, length |-> None, squeeze |-> FALSE]
    /\ file = <<>>
    /\ sinkLimit = 0
    /\ pc = "idle"
    /\ length = NoResult
    /\ skip = NoResult
    /\ request = [made |-> FALSE, skip |-> 0, length |-> [given |-> FALSE, n |-> 0]]
    /\ data = <<>>
    /\ shown = [made |-> FALSE, offset |-> 0, show_all |-> FALSE]
    /\ out = <<>>
    /\ error = "none"
    /\ readCalls = 0
    /\ showCalls = 0

InitParse ==
    /\ build \in Builds
    /\ input \in Texts(MaxLen)
    /\ result = NoResult
    /\ called = FALSE
    /\ Idle

CallParseUnit ==
    /\ ~called
    /\ called' = TRUE
    /\ result' = parse_unit(build, input)
    /\ UNCHANGED <<build, input>>
    /\ UNCHANGED execVars

NextParse == CallParseUnit

SpecParse == InitParse /\ [][NextParse]_vars

----------------------------------------------------------------------------
(* What the unit grammar says, stated without the parser *)

Units == { [text |-> <<"k", "b">>, factor |-> 1000],
           [text |-> <<"m", "b">>, factor |-> 1000000],
           [text |-> <<"K">>,      factor |-> 1024],
           [text |-> <<"M">>,      factor |-> 1048576],
           [text |-> <<>>,         factor |-> 1] }

Suffixed == {u \in Units : u.text # <<>>}

EndsWith(s, t) ==
    /\ Len(s) >= Len(t)
    /\ \A i \in 1..Len(t) : s[Len(s) - Len(t) + i] = t[i]

AllDigits(s) == s # <<>> /\ \A i \in 1..Len(s) : IsDigit(s[i])

RECURSIVE NumberOf(_)
NumberOf(s) ==
    IF s = <<>> THEN 0
    ELSE 10 * NumberOf(SubSeq(s, 1, Len(s) - 1)) + to_digit(s[Len(s)])

Front(s, n) == SubSeq(s, 1, Len(s) - n)

\* an optional plus sign, then digits, of a value a usize holds
ValidInteger(s) ==
    LET body == IF s # <<>> /\ s[1] = "+" THEN Tail(s) ELSE s
    IN  AllDigits(body) /\ NumberOf(body) <= UsizeMax

\* the text left once the one matched suffix is removed
Remainder(s) ==
    IF \E u \in Suffixed : EndsWith(s, u.text)
    THEN Front(s, Len((CHOOSE u \in Suffixed : EndsWith(s, u.text)).text))
    ELSE s

\* C1: digits d followed by at most one unit suffix of factor f, with d * f
\* fitting in usize, parse to Ok(d * f).
C1_DigitsTimesFactor ==
    called =>
        \A u \in Units :
            LET d == Front(input, Len(u.text))
            IN  ( /\ EndsWith(input, u.text)
                  /\ Len(input) > Len(u.text)
                  /\ AllDigits(d)
                  /\ NumberOf(d) <= UsizeMax \div u.factor )
                => result = Ok(NumberOf(d) * u.factor)

C1_Witness ==
    /\ called
    /\ input = <<"3", "k", "b">>
    /\ result = Ok(3000)

\* C2: when the text left after removing the one matched suffix is not a
\* valid non-negative base-10 integer, parse_unit returns a parse error.
C2_BadRemainderIsError ==
    called =>
        (~ValidInteger(Remainder(input)) =>
            /\ result.kind = "Err"
            /\ result.err \in {"Empty", "InvalidDigit", "PosOverflow"})

C2_Witness ==
    /\ called
    /\ input = <<"1", "k", "b", "K">>
    /\ result = Err("InvalidDigit")

SuffixAt == << <<"k", "b">>, <<"m", "b">>, <<"K">>, <<"M">> >>
FactorAt == <<1000, 1000000, 1024, 1048576>>

Orders == {p \in [1..4 -> 1..4] : \A i, j \in 1..4 : p[i] = p[j] => i = j}

\* parse_unit with its four suffix checks tried in the given order
RECURSIVE ParseInOrder(_, _, _)
ParseInOrder(b, order, text) ==
    IF order = <<>> THEN ParseUsize(text)
    ELSE LET st == strip_suffix(text, SuffixAt[Head(order)])
         IN  IF st.some THEN Branch(b, st.rest, FactorAt[Head(order)])
             ELSE ParseInOrder(b, Tail(order), text)

Matching(text) == {k \in 1..4 : strip_suffix(text, SuffixAt[k]).some}

\* C8: at most one suffix check matches a text, matching is case-sensitive,
\* and every order of the four checks gives the result of the fixed order.
C8_OrderIrrelevant ==
    called =>
        /\ Cardinality(Matching(input)) <= 1
        /\ (input # <<>> /\ input[Len(input)] \in {"k", "m", "B"}
              => Matching(input) = {})
        /\ (Matching(input) = {} => result = ParseUsize(input))
        /\ (Matching(input) # {} =>
              \A p \in Orders : ParseInOrder(build, p, input) = result)

C8_Witness ==
    /\ called
    /\ input = <<"1", "m", "b">>
    /\ Matching(input) = {2}
    /\ result = Ok(1000000)

\* C10: an Ok result for digits d with a suffix of factor f is the exact
\* product d * f, never a value wrapped modulo 2^UsizeBits.
C10_NoWrappedProduct ==
    (called /\ result.kind = "Ok") =>
        \A u \in Suffixed :
            LET d == Front(input, Len(u.text))
            IN  (EndsWith(input, u.text) /\ AllDigits(d))
                => /\ NumberOf(d) <= UsizeMax \div u.factor
                   /\ result.value = NumberOf(d) * u.factor

----------------------------------------------------------------------------
(* Window Reader: read_data(skip, length, filename) *)

Given(n) == [given |-> TRUE, n |-> n]
Unspecified == [given |-> FALSE, n |-> 0]

NoFile == [exists |-> FALSE, bytes |-> <<>>]
FileOf(bytes) == [exists |-> TRUE, bytes |-> bytes]

Min(a, b) == IF a <= b THEN a ELSE b

IoOk(bytes) == [kind |-> "Ok", data |-> bytes]
IoErr == [kind |-> "Err", data |-> <<>>]

read_data(offset, len, f) ==
    IF ~f.exists THEN IoErr
    ELSE IF offset >= Len(f.bytes) THEN IoOk(<<>>)
    ELSE IF len.given
    THEN IoOk(SubSeq(f.bytes, offset + 1, Min(offset + len.n, Len(f.bytes))))
    ELSE IoOk(SubSeq(f.bytes, offset + 1, Len(f.bytes)))

----------------------------------------------------------------------------
(* Dump Renderer: display_data(offset, show_all, data, sink) *)

ChunkSize == 16
AddressWidth == 8
Unlimited == -1

HexDigits == <<"0", "1", "2", "3", "4", "5", "6", "7",
               "8", "9", "a", "b", "c", "d", "e", "f">>

\* n in radix 16, zero-padded to at least width digits
RECURSIVE ToHex(_, _)
ToHex(n, width) ==
    IF n < 16 /\ width <= 1 THEN <<HexDigits[n + 1]>>
    ELSE Append(ToHex(n \div 16, width - 1), HexDigits[(n % 16) + 1])

Blank == <<" ", " ">>
HexCell(chunk, j) == IF j <= Len(chunk) THEN ToHex(chunk[j], 2) ELSE Blank

\* a printable byte shows as its own character, any other as '.' (46)
AsciiCell(byte) == IF byte >= 32 /\ byte <= 126 THEN byte ELSE 46

\* the text of a line after its address label
Canonical(chunk) ==
    [hex |-> [j \in 1..ChunkSize |-> HexCell(chunk, j)],
     ascii |-> [j \in 1..Len(chunk) |-> AsciiCell(chunk[j])]]

Row(address, chunk) ==
    [star |-> FALSE, addr |-> ToHex(address, AddressWidth),
     text |-> Canonical(chunk)]
Star == [star |-> TRUE, addr |-> <<>>, text |-> Canonical(<<>>)]

ChunkCount(bytes) == (Len(bytes) + ChunkSize - 1) \div ChunkSize
Chunk(bytes, i) ==
    SubSeq(bytes, (i - 1) * ChunkSize + 1, Min(i * ChunkSize, Len(bytes)))

NoPrev == [some |-> FALSE, text |-> Canonical(<<>>)]
Prev(text) == [some |-> TRUE, text |-> text]

\* one chunk through the squeeze state (prev, marked): the lines it emits
\* and the state it leaves
SqueezeStep_markEvery(show_all, prev, marked, address, chunk) ==
    IF show_all
    THEN [lines |-> <<Row(address, chunk)>>, prev |-> prev, marked |-> marked]
    ELSE IF /\ Len(chunk) = ChunkSize
            /\ prev.some
            /\ prev.text = Canonical(chunk)
    THEN [lines |-> <<Star>>, prev |-> prev, marked |-> TRUE]
    ELSE [lines |-> <<Row(address, chunk)>>,
          prev |-> Prev(Canonical(chunk)), marked |-> FALSE]
SqueezeStep(show_all, prev, marked, address, chunk) ==
    IF show_all
    THEN [lines |-> <<Row(address, chunk)>>, prev |-> prev, marked |-> marked]
    ELSE IF /\ Len(chunk) = ChunkSize
            /\ prev.some
            /\ prev.text = Canonical(chunk)
    THEN [lines |-> IF marked THEN <<>> ELSE <<Star>>,
          prev |-> prev, marked |-> TRUE]
    ELSE [lines |-> <<Row(address, chunk)>>,
          prev |-> Prev(Canonical(chunk)), marked |-> FALSE]

RECURSIVE RenderFrom(_, _, _, _, _, _)
RenderFrom(i, offset, show_all, bytes, prev, marked) ==
    IF i > ChunkCount(bytes) THEN <<>>
    ELSE LET st == SqueezeStep(show_all, prev, marked,
                               offset + (i - 1) * ChunkSize, Chunk(bytes, i))
         IN  st.lines \o RenderFrom(i + 1, offset, show_all, bytes,
                                    st.prev, st.marked)

\* the sink takes the lines in order until a write fails
display_data(offset, show_all, bytes, limit) ==
    LET lines == RenderFrom(1, offset, show_all, bytes, NoPrev, FALSE)
    IN  IF limit = Unlimited \/ Len(lines) <= limit
        THEN [kind |-> "Ok", lines |-> lines]
        ELSE [kind |-> "Err", lines |-> SubSeq(lines, 1, limit)]

----------------------------------------------------------------------------
(* execute *)

\* cli.length.unwrap_or("0".into())
LengthText(opt) == IF opt.some THEN opt.rest ELSE <<"0">>

\* read_data(skip, length, &cli.filename)
ReadRequest(skipValue, lengthValue) ==
    [made |-> TRUE, skip |-> skipValue, length |-> Given(lengthValue)]

\* display_data(skip, !cli.squeeze, &data, stdout)
DisplayArgs_zeroOffset(skipValue, squeeze) ==
    [made |-> TRUE, offset |-> 0, show_all |-> ~squeeze]
DisplayArgs(skipValue, squeeze) ==
    [made |-> TRUE, offset |-> skipValue, show_all |-> ~squeeze]

NotRequested == [made |-> FALSE, skip |-> 0, length |-> Unspecified]
NotShown == [made |-> FALSE, offset |-> 0, show_all |-> FALSE]

\* the ? operator: where execute goes after a call returned res
Question_ignoreErr(res, next) ==
    IF res.kind = "Panic" THEN "panicked" ELSE next
Question(res, next) ==
    IF res.kind = "Ok" THEN next
    ELSE IF res.kind = "Panic" THEN "panicked"
    ELSE "failed"

Failure(res, what) ==
    IF res.kind = "Ok" THEN "none"
    ELSE IF res.kind = "Panic" THEN "panic"
    ELSE what

Line(byte) == [j \in 1..ChunkSize |-> byte]
Lines == {Line(0), Line(65)}
Tails == {<<>>, <<0, 0, 0, 0>>}

RECURSIVE Flatten(_)
Flatten(ss) == IF ss = <<>> THEN <<>> ELSE Head(ss) \o Flatten(Tail(ss))

Files ==
    {NoFile} \cup
    {FileOf(Flatten(ls) \o t) :
        ls \in UNION {[1..k -> Lines] : k \in 0..MaxChunks}, t \in Tails}

SkipArgs == { <<"0">>, <<"1", "6">>, <<"1", "K">>, <<"K">>, <<"9", "M">> }
LengthArgs ==
    {None} \cup
    {Some(t) : t \in { <<"0">>, <<"1", "6">>, <<"2", "0">>, <<"4", "8">>,
                       <<"1", "K">>, <<" ", "1">>, <<"9", "M">> }}

Init ==
    /\ build \in Builds
    /\ input = <<>>
    /\ result = NoResult
    /\ called = FALSE
    /\ cli \in [skip : SkipArgs, length : LengthArgs, squeeze : BOOLEAN]
    /\ file \in Files
    /\ sinkLimit \in {Unlimited, 1}
    /\ pc = "start"
    /\ length = NoResult
    /\ skip = NoResult
    /\ request = NotRequested
    /\ data = <<>>
    /\ shown = NotShown
    /\ out = <<>>
    /\ error = "none"
    /\ readCalls = 0
    /\ showCalls = 0

\* let length = parse_unit(&cli.length.unwrap_or("0".into()))?;
ParseLength ==
    /\ pc = "start"
    /\ length' = parse_unit(build, LengthText(cli.length))
    /\ pc' = Question(length', "length_parsed")
    /\ error' = Failure(length', "parse")
    /\ UNCHANGED <<build, input, result, called, cli, file, sinkLimit, skip,
                   request, data, shown, out, readCalls, showCalls>>

\* let skip = parse_unit(&cli.skip)?;
ParseSkip ==
    /\ pc = "length_parsed"
    /\ skip' = parse_unit(build, cli.skip)
    /\ pc' = Question(skip', "skip_parsed")
    /\ error' = Failure(skip', "parse")
    /\ UNCHANGED <<build, input, result, called, cli, file, sinkLimit, length,
                   request, data, shown, out, readCalls, showCalls>>

\* let data = read_data(skip, length, &cli.filename)?;
ReadData ==
    /\ pc = "skip_parsed"
    /\ request' = ReadRequest(skip.value, length.value)
    /\ readCalls' = readCalls + 1
    /\ LET r == read_data(request'.skip, request'.length, file)
       IN  /\ data' = r.data
           /\ pc' = Question(r, "data_read")
           /\ error' = Failure(r, "io_read")
    /\ UNCHANGED <<build, input, result, called, cli, file, sinkLimit, length,
                   skip, shown, out, showCalls>>

\* display_data(skip, !cli.squeeze, &data, &mut stdout)?; Ok(())
DisplayData ==
    /\ pc = "data_read"
    /\ shown' = DisplayArgs(skip.value, cli.squeeze)
    /\ showCalls' = showCalls + 1
    /\ LET r == display_data(shown'.offset, shown'.show_all, data, sinkLimit)
       IN  /\ out' = r.lines
           /\ pc' = Question(r, "done")
           /\ error' = Failure(r, "io_write")
    /\ UNCHANGED <<build, input, result, called, cli, file, sinkLimit, length,
                   skip, request, data, readCalls>>

Next == ParseLength \/ ParseSkip \/ ReadData \/ DisplayData

Spec == Init /\ [][Next]_vars

----------------------------------------------------------------------------
(* Properties of execute *)

ReadReturned == pc \in {"data_read", "done"} \/ error = "io_write"

Remaining == IF skip.value >= Len(file.bytes) THEN <<>>
             ELSE SubSeq(file.bytes, skip.value + 1, Len(file.bytes))

\* C3: with --length not given, the Window Reader is asked for an
\* unspecified length and returns all bytes from the skip offset to the end
\* of the file.
C3_UnsetLengthReadsToEof ==
    (~cli.length.some /\ request.made) =>
        /\ ~request.length.given
        /\ (ReadReturned => data = Remaining)

\* the window an explicit --length 0 gives on this file at this skip
ZeroLengthWindow ==
    read_data(skip.value,
              ReadRequest(skip.value, parse_unit(build, <<"0">>).value).length,
              file).data

\* C4: with --length given and parsed to N the window holds at most N
\* bytes; --length 0 gives an empty window and no output, unlike an unset
\* --length on a file with bytes after the skip offset.
C4_WindowBoundedByLength ==
    /\ (cli.length.some /\ ReadReturned) => Len(data) <= length.value
    /\ (cli.length = Some(<<"0">>) /\ pc = "done") =>
            data = <<>> /\ out = <<>>
    /\ (~cli.length.some /\ ReadReturned /\ Remaining # <<>>) =>
            data # ZeroLengthWindow

\* C5: the renderer gets show_all = TRUE exactly when -n/--no-squeezing is
\* on the command line, and then no line is collapsed.
C5_ShowAllIffFlag ==
    shown.made =>
        /\ shown.show_all = cli.squeeze
        /\ (cli.squeeze => \A i \in 1..Len(out) : ~out[i].star)

\* C6: the file is read only after both parse_unit calls returned Ok, and a
\* parse error leaves the file untouched and the output empty.
C6_ParseErrorBeforeFileAccess ==
    /\ (readCalls > 0 \/ request.made) =>
            length.kind = "Ok" /\ skip.kind = "Ok"
    /\ (length.kind = "Err" \/ skip.kind = "Err") =>
            /\ error = "parse"
            /\ pc = "failed"
            /\ readCalls = 0
            /\ showCalls = 0
            /\ out = <<>>
    /\ length.kind = "Err" => skip.kind = "NotCalled"

C6_Witness ==
    /\ length.kind = "Ok"
    /\ skip.kind = "Err"
    /\ error = "parse"
    /\ readCalls = 0
    /\ file.exists

\* what squeezing makes of chunk i of a window, told from the bytes alone
SameAsBefore(bytes, i) ==
    /\ i > 1
    /\ Len(Chunk(bytes, i)) = ChunkSize
    /\ Chunk(bytes, i) = Chunk(bytes, i - 1)

Squeezed(offset, bytes, i) ==
    IF ~SameAsBefore(bytes, i)
    THEN <<Row(offset + (i - 1) * ChunkSize, Chunk(bytes, i))>>
    ELSE IF SameAsBefore(bytes, i - 1) THEN <<>>
    ELSE <<Star>>

RECURSIVE SqueezedUpTo(_, _, _)
SqueezedUpTo(offset, bytes, n) ==
    IF n = 0 THEN <<>>
    ELSE SqueezedUpTo(offset, bytes, n - 1) \o Squeezed(offset, bytes, n)

\* C7: with squeezing active every maximal run of two or more identical full
\* lines is written as its first line in full and then one asterisk line,
\* the later lines of the run write nothing, and a short last chunk is
\* written in full.
C7_OneStarPerRun ==
    (pc = "done" /\ ~shown.show_all) =>
        out = SqueezedUpTo(shown.offset, data, ChunkCount(data))

C7_Witness ==
    /\ pc = "done"
    /\ ~shown.show_all
    /\ Len(data) = 3 * ChunkSize
    /\ Chunk(data, 1) = Chunk(data, 2)
    /\ Chunk(data, 2) = Chunk(data, 3)
    /\ Len(out) = 2
    /\ ~out[1].star
    /\ out[2].star

\* C9: the renderer is called at most once, only after read_data returned
\* Ok, with the skip value read_data was given; a failed read is not
\* retried and writes nothing.
C9_ReadFailureBeforeRender ==
    /\ readCalls <= 1
    /\ showCalls <= 1
    /\ shown.made =>
            /\ showCalls = 1
            /\ readCalls = 1
            /\ error # "io_read"
            /\ skip.kind = "Ok"
            /\ request.skip = skip.value
            /\ shown.offset = request.skip
    /\ error = "io_read" =>
            /\ pc = "failed"
            /\ readCalls = 1
            /\ showCalls = 0
            /\ ~shown.made
            /\ out = <<>>

C9_Witness ==
    /\ error = "io_read"
    /\ ~file.exists
    /\ readCalls = 1
    /\ showCalls = 0

====
